---- MODULE Spec2Model ----
(***************************************************************************)
(* GeoGuide AI: the Application Shell (App, the later snapshot) and the AI *)
(* Service Gateway (sendMessageToGemini), both in src/services/gemini.ts,  *)
(* and the Map View (MapComponent, the later snapshot) in                  *)
(* src/components/MapComponent.tsx.                                        *)
(*                                                                         *)
(* Text is a sequence of symbols.  A symbol is one character (SP, NL, "a") *)
(* or an atomic piece of text that the code never looks inside: BT is the  *)
(* three backticks of a fence, J the word json, "A", "B", "O", "D" a JSON   *)
(* object literal of the marker schema, and a fixed message of the program *)
(* is a one-symbol text holding the whole literal.                         *)
(*                                                                         *)
(* An action is one run of a handler or callback on the UI event loop:     *)
(* React commits the state a handler sets before the next event is         *)
(* handled, and the code after an await runs as one callback.              *)
(***************************************************************************)
EXTENDS Integers, Sequences, FiniteSets, TLC

VARIABLES
    messages,      \* App: useState<Message[]>
    inputValue,    \* App: useState('')
    isLoading,     \* App: useState(false), the in-flight flag
    mode,          \* App: useState<ChatMode>
    userLocation,  \* App: useState<Location>
    mapCenter,     \* App: useState<Location>
    mapZoom,       \* App: useState(13)
    markers,       \* App: useState<MapMarker[]>
    isDarkMode,    \* App: useState(false)
    mapLayer,      \* App: useState<'street' | 'satellite'>
    pending,       \* the suspended handleSendMessage calls (await at line 210)
    geo,           \* the getCurrentPosition request of the mount effect
    now,           \* Date.now()
    gatewayCalls,  \* number of sendMessageToGemini invocations made by the Shell
    gwIn,          \* a direct invocation of sendMessageToGemini: its arguments
    gwOut,         \* ... the request it made and what the returned promise settled with
    leaflet        \* the Map View's Leaflet map: the view last applied to it

vars == <<messages, inputValue, isLoading, mode, userLocation, mapCenter, mapZoom,
          markers, isDarkMode, mapLayer, pending, geo, now, gatewayCalls, gwIn, gwOut,
          leaflet>>

shellVars == <<messages, inputValue, isLoading, mode, userLocation, mapCenter, mapZoom,
               markers, isDarkMode, mapLayer, pending, geo, now, gatewayCalls>>

(***************************************************************************)
(* Bounds of the model.                                                    *)
(***************************************************************************)
MaxSends == 2

(***************************************************************************)
(* Optional values: undefined, or a present value.                         *)
(***************************************************************************)
Undefined == <<>>
Some(v) == <<v>>
IsDefined(o) == o /= Undefined
Get(o) == o[1]

(***************************************************************************)
(* Text.                                                                   *)
(***************************************************************************)
SP == " "
NL == "nl"
BT == "fence"
J == "json"
Whitespace == {SP, NL}

RECURSIVE TrimStart(_)
TrimStart(s) ==
    IF s /= <<>> /\ Head(s) \in Whitespace THEN TrimStart(Tail(s)) ELSE s

RECURSIVE TrimEnd(_)
TrimEnd(s) ==
    IF s /= <<>> /\ s[Len(s)] \in Whitespace
    THEN TrimEnd(SubSeq(s, 1, Len(s) - 1))
    ELSE s

\* String.prototype.trim
Trim(s) == TrimEnd(TrimStart(s))

\* whether pat occurs in s at position i
OccursAt(s, pat, i) ==
    /\ i >= 1
    /\ i + Len(pat) - 1 <= Len(s)
    /\ SubSeq(s, i, i + Len(pat) - 1) = pat

FenceOpen == <<BT, J, NL>>
FenceClose == <<NL, BT>>

\* The pattern of line 101, <fence>json NL ( any text, lazy ) NL <fence>: the
\* leftmost opening fence that a closing fence follows, and (the quantifier is
\* lazy) the nearest closing fence after it.
\* <<>> when there is no match, else <<[from, to, group]>>: the match is
\* s[from..to] and group is capture group 1.
FenceMatch(s) ==
    LET opens == {i \in 1..Len(s) :
                     /\ OccursAt(s, FenceOpen, i)
                     /\ \E j \in (i + Len(FenceOpen))..Len(s) : OccursAt(s, FenceClose, j)}
    IN  IF opens = {} THEN Undefined
        ELSE LET i == CHOOSE x \in opens : \A y \in opens : x <= y
                 closes == {j \in (i + Len(FenceOpen))..Len(s) : OccursAt(s, FenceClose, j)}
                 j == CHOOSE x \in closes : \A y \in closes : x <= y
             IN  Some([from |-> i,
                       to |-> j + Len(FenceClose) - 1,
                       group |-> SubSeq(s, i + Len(FenceOpen), j - 1)])

\* text.replace(pattern, empty) of line 121: the first match removed
RemoveFence(s) ==
    LET m == FenceMatch(s)
    IN  IF IsDefined(m)
        THEN SubSeq(s, 1, Get(m).from - 1) \o SubSeq(s, Get(m).to + 1, Len(s))
        ELSE s

(***************************************************************************)
(* JSON.parse on the contents of a fenced block.  The contents are made of *)
(* the symbols "[", "]", ",", whitespace and scalars: "A", "B", "O", "D"   *)
(* stand for object literals of the marker schema, "null" for null.  Any   *)
(* other symbol is text that is no JSON.  Arrays are flat.                 *)
(***************************************************************************)
ObjectSymbols == {"A", "B", "O", "D"}
Scalars == ObjectSymbols \cup {"null"}

\* the object a literal stands for (the fields the prompt's schema names)
JsonObject(sym) ==
    CASE sym = "A" -> [name |-> "Golden Gate Park", lat |-> 377694, lng |-> -1224862,
                       description |-> "park", type |-> Undefined, distance |-> Undefined]
      [] sym = "B" -> [name |-> "Cafe", lat |-> 377700, lng |-> -1224800,
                       description |-> "cafe", type |-> Some("poi"), distance |-> Some("0.5 miles")]
      [] sym = "O" -> [name |-> "Ferry Building", lat |-> 377955, lng |-> -1223937,
                       description |-> "start", type |-> Some("origin"), distance |-> Undefined]
      [] sym = "D" -> [name |-> "Ocean Beach", lat |-> 377594, lng |-> -1225107,
                       description |-> "end", type |-> Some("destination"),
                       distance |-> Some("7 miles")]

NotWhitespace(c) == c \notin Whitespace

\* the elements between the brackets: scalar ("," scalar)*, or nothing
RECURSIVE IsElementList(_)
IsElementList(toks) ==
    \/ /\ Len(toks) = 1
       /\ toks[1] \in Scalars
    \/ /\ Len(toks) >= 3
       /\ toks[1] \in Scalars
       /\ toks[2] = ","
       /\ IsElementList(SubSeq(toks, 3, Len(toks)))

RECURSIVE Elements(_)
Elements(toks) ==
    IF Len(toks) <= 1 THEN toks
    ELSE <<toks[1]>> \o Elements(SubSeq(toks, 3, Len(toks)))

\* [ok |-> FALSE]: JSON.parse throws a SyntaxError.  Otherwise isArray says
\* what Array.isArray answers and elems are the array's elements.
JSONParse(content) ==
    LET toks == SelectSeq(content, NotWhitespace)
        inner == SubSeq(toks, 2, Len(toks) - 1)
    IN  IF Len(toks) = 1 /\ toks[1] \in Scalars
        THEN [ok |-> TRUE, isArray |-> FALSE, elems |-> <<>>]
        ELSE IF /\ Len(toks) >= 2
                /\ toks[1] = "["
                /\ toks[Len(toks)] = "]"
                /\ (inner = <<>> \/ IsElementList(inner))
        THEN [ok |-> TRUE, isArray |-> TRUE, elems |-> Elements(inner)]
        ELSE [ok |-> FALSE, isArray |-> FALSE, elems |-> <<>>]

(***************************************************************************)
(* The AI Service Gateway: sendMessageToGemini.                            *)
(***************************************************************************)
MAPS == "MAPS"
SEARCH == "SEARCH"
CHAT == "CHAT"
ChatMode == {MAPS, SEARCH, CHAT}

NoTextFallback == <<"I couldn't generate a text response.">>
GatewayApology ==
    <<"I encountered an error connecting to the service. Please check your connection and try again.">>

\* the marker built from element m at (0-based) position idx, at time t
Marker(m, idx, t) ==
    LET o == JsonObject(m)
    IN  [id |-> <<"marker", t, idx>>,
         name |-> o.name,
         lat |-> o.lat,
         lng |-> o.lng,
         description |-> o.description]

IsCitation(c) == c.kind \in {"web", "maps"}

\* a variant of Sources: the title taken as it is, without a default
Sources_noDefault(chunks) ==
    LET cited == SelectSeq(chunks, IsCitation)
    IN  [k \in 1..Len(cited) |-> [title |-> cited[k].title, uri |-> cited[k].uri]]

\* the forEach over the grounding chunks: one source per web or maps chunk
RECURSIVE Sources(_)
Sources(chunks) ==
    IF chunks = <<>> THEN <<>>
    ELSE LET c == Head(chunks)
             rest == Sources(Tail(chunks))
         IN  IF c.kind = "web"
             THEN <<[title |-> IF c.title = <<>> THEN <<"Web Source">> ELSE c.title,
                     uri |-> c.uri]>> \o rest
             ELSE IF c.kind = "maps"
             THEN <<[title |-> IF c.title = <<>> THEN <<"Map Location">> ELSE c.title,
                     uri |-> c.uri]>> \o rest
             ELSE rest

\* what a settled promise of the Gateway carries
Resolved(v) == [settled |-> "resolved", value |-> v]
Rejected == [settled |-> "rejected",
             value |-> [text |-> <<>>, markers |-> Undefined, sources |-> Undefined]]

\* a variant of GatewayCatch: the error logged and thrown again
GatewayCatch_rethrow == Rejected

\* the catch block of sendMessageToGemini: the returned object has a text only
GatewayCatch ==
    Resolved([text |-> GatewayApology, markers |-> Undefined, sources |-> Undefined])

\* a variant of ParseMarkers: no try around JSON.parse
ParseMarkers_noTry(group, t) ==
    LET parsed == JSONParse(group)
    IN  IF ~parsed.ok
        THEN [threw |-> TRUE, markers |-> <<>>]
        ELSE IF ~parsed.isArray
        THEN [threw |-> FALSE, markers |-> <<>>]
        ELSE IF \E k \in 1..Len(parsed.elems) : parsed.elems[k] = "null"
        THEN [threw |-> TRUE, markers |-> <<>>]
        ELSE [threw |-> FALSE,
              markers |-> [k \in 1..Len(parsed.elems) |-> Marker(parsed.elems[k], k - 1, t)]]

\* the marker-parsing block, for a match of the pattern with a non-empty group.
\* [threw |-> TRUE] when the map callback reads a field of null.
ParseMarkers(group, t) ==
    LET parsed == JSONParse(group)
    IN  IF ~parsed.ok
        THEN [threw |-> FALSE, markers |-> <<>>]          \* caught and warned
        ELSE IF ~parsed.isArray
        THEN [threw |-> FALSE, markers |-> <<>>]
        ELSE IF \E k \in 1..Len(parsed.elems) : parsed.elems[k] = "null"
        THEN [threw |-> TRUE, markers |-> <<>>]
        ELSE [threw |-> FALSE,
              markers |-> [k \in 1..Len(parsed.elems) |-> Marker(parsed.elems[k], k - 1, t)]]

SYSTEM_INSTRUCTION_MAPS == "SYSTEM_INSTRUCTION_MAPS"
SYSTEM_INSTRUCTION_SEARCH == "SYSTEM_INSTRUCTION_SEARCH"
SYSTEM_INSTRUCTION_CHAT == "SYSTEM_INSTRUCTION_CHAT"

\* a variant of Request: the location attached whatever the mode
Request_biasAnyMode(prompt, m, loc) ==
    LET tools == IF m = MAPS THEN <<"googleMaps">>
                 ELSE IF m = SEARCH THEN <<"googleSearch">> ELSE <<>>
    IN  [model |-> IF m \in {MAPS, SEARCH} THEN "gemini-2.5-flash" ELSE "gemini-3-pro-preview",
         contents |-> prompt,
         config |->
            [systemInstruction |-> IF m = MAPS THEN SYSTEM_INSTRUCTION_MAPS
                                   ELSE IF m = SEARCH THEN SYSTEM_INSTRUCTION_SEARCH
                                   ELSE SYSTEM_INSTRUCTION_CHAT,
             tools |-> IF Len(tools) > 0 THEN Some(tools) ELSE Undefined,
             toolConfig |->
                IF IsDefined(loc)
                THEN Some([retrievalConfig |-> [latLng |->
                         [latitude |-> Get(loc).lat, longitude |-> Get(loc).lng]]])
                ELSE Undefined]]

\* the argument of ai.models.generateContent (lines 42-81), for the mode m and
\* the optional location loc
Request(prompt, m, loc) ==
    LET modelName == IF m = MAPS THEN "gemini-2.5-flash"
                     ELSE IF m = SEARCH THEN "gemini-2.5-flash"
                     ELSE "gemini-3-pro-preview"
        systemInstruction == IF m = MAPS THEN SYSTEM_INSTRUCTION_MAPS
                             ELSE IF m = SEARCH THEN SYSTEM_INSTRUCTION_SEARCH
                             ELSE SYSTEM_INSTRUCTION_CHAT
        tools == IF m = MAPS THEN <<"googleMaps">>
                 ELSE IF m = SEARCH THEN <<"googleSearch">>
                 ELSE <<>>
        toolConfig == IF m = MAPS /\ IsDefined(loc)
                      THEN Some([retrievalConfig |-> [latLng |->
                               [latitude |-> Get(loc).lat, longitude |-> Get(loc).lng]]])
                      ELSE Undefined
    IN  [model |-> modelName,
         contents |-> prompt,
         config |-> [systemInstruction |-> systemInstruction,
                     tools |-> IF Len(tools) > 0 THEN Some(tools) ELSE Undefined,
                     toolConfig |-> toolConfig]]

\* the display text: the first fenced block removed, then trimmed
CleanText(text) == Trim(RemoveFence(text))

\* sendMessageToGemini(prompt, mode, userLocation), when the provider call
\* ends with outcome and Date.now() reads t in the marker-parsing block
sendMessageToGemini(prompt, m, loc, outcome, t) ==
    IF outcome.kind = "throw" THEN GatewayCatch
    ELSE LET text == IF outcome.text = <<>> THEN NoTextFallback ELSE outcome.text
             sources == IF IsDefined(outcome.chunks) THEN Sources(Get(outcome.chunks)) ELSE <<>>
             jsonMatch == FenceMatch(text)
             parse == IF m = MAPS /\ IsDefined(jsonMatch) /\ Get(jsonMatch).group /= <<>>
                      THEN ParseMarkers(Get(jsonMatch).group, t)
                      ELSE [threw |-> FALSE, markers |-> <<>>]
         IN  IF parse.threw THEN GatewayCatch
             ELSE Resolved([text |-> CleanText(text),
                            markers |-> Some(parse.markers),
                            sources |-> Some(sources)])

\* the optional fields of a MapMarker, and the role the views give a marker
MarkerType(mk) == IF "type" \in DOMAIN mk THEN mk.type ELSE Undefined
MarkerDistance(mk) == IF "distance" \in DOMAIN mk THEN mk.distance ELSE Undefined
Role(mk) == IF IsDefined(MarkerType(mk)) THEN Get(MarkerType(mk)) ELSE "default"

(***************************************************************************)
(* The Map View: MapComponent, as a function of the props the Shell hands  *)
(* it at each render.                                                      *)
(***************************************************************************)
StreetTiles == "https://{s}.tile.openstreetmap.org/{z}/{x}/{y}.png"
SatelliteTiles ==
    "https://server.arcgisonline.com/ArcGIS/rest/services/World_Imagery/MapServer/tile/{z}/{y}/{x}"
DarkTiles == "https://{s}.basemaps.cartocdn.com/dark_all/{z}/{x}/{y}{r}.png"

\* a variant of tileLayerUrl: dark mode tested before the layer
tileLayerUrl_darkFirst(layer, dark) ==
    IF dark THEN DarkTiles
    ELSE IF layer = "satellite" THEN SatelliteTiles
    ELSE StreetTiles

\* the tile configuration (lines 262-272)
tileLayerUrl(layer, dark) ==
    IF layer = "satellite" THEN SatelliteTiles
    ELSE IF dark THEN DarkTiles
    ELSE StreetTiles

\* a variant of routePositions: the origin has to come before the destination
routePositions_originFirst(ms) ==
    LET isOrigin(k) == MarkerType(ms[k]) = Some("origin")
        isDest(k) == MarkerType(ms[k]) = Some("destination")
    IN  IF \E o, d \in 1..Len(ms) : isOrigin(o) /\ isDest(d) /\ o < d
        THEN LET o == CHOOSE k \in 1..Len(ms) :
                          isOrigin(k) /\ \A h \in 1..(k - 1) : ~isOrigin(h)
                 d == CHOOSE k \in 1..Len(ms) :
                          isDest(k) /\ \A h \in 1..(k - 1) : ~isDest(h)
             IN  Some(<<[lat |-> ms[o].lat, lng |-> ms[o].lng],
                        [lat |-> ms[d].lat, lng |-> ms[d].lng]>>)
        ELSE Undefined

\* Array.prototype.find with m => m.type === role: the index of the first
\* marker of that role, 0 when there is none
Find(ms, role) ==
    IF \E k \in 1..Len(ms) : MarkerType(ms[k]) = Some(role)
    THEN CHOOSE k \in 1..Len(ms) :
             /\ MarkerType(ms[k]) = Some(role)
             /\ \A h \in 1..(k - 1) : MarkerType(ms[h]) /= Some(role)
    ELSE 0

\* the route line (lines 250-260): Undefined stands for null.  The Polyline is
\* rendered exactly when the value is not null (lines 308-319).
routePositions(ms) ==
    LET origin == Find(ms, "origin")
        dest == Find(ms, "destination")
    IN  IF origin > 0 /\ dest > 0
        THEN Some(<<[lat |-> ms[origin].lat, lng |-> ms[origin].lng],
                    [lat |-> ms[dest].lat, lng |-> ms[dest].lng]>>)
        ELSE Undefined

\* the views the effects apply to the Leaflet map
Min(S) == CHOOSE x \in S : \A y \in S : x <= y
Max(S) == CHOOSE x \in S : \A y \in S : x >= y

\* map.setView([center.lat, center.lng], zoom)
SetView(center, zoom) ==
    [op |-> "setView", center |-> Some(center), zoom |-> Some(zoom),
     bounds |-> Undefined, padding |-> Undefined]

\* map.fitBounds(L.latLngBounds(markers.map(m => [m.lat, m.lng])), {padding: [50, 50]})
FitBounds(ms) ==
    [op |-> "fitBounds", center |-> Undefined, zoom |-> Undefined,
     bounds |-> Some([south |-> Min({ms[k].lat : k \in 1..Len(ms)}),
                      north |-> Max({ms[k].lat : k \in 1..Len(ms)}),
                      west |-> Min({ms[k].lng : k \in 1..Len(ms)}),
                      east |-> Max({ms[k].lng : k \in 1..Len(ms)})]),
     padding |-> Some(<<50, 50>>)]

\* a variant of RunEffects: the fit depends on center and zoom as well
RunEffects_fitAlways(view, viewChanged, markersChanged, center, zoom, ms) ==
    IF (viewChanged \/ markersChanged) /\ Len(ms) > 0 THEN FitBounds(ms)
    ELSE IF viewChanged THEN SetView(center, zoom)
    ELSE view

\* the effects that run after a render, in the order of the children
\* (lines 292-293): ChangeView when center or zoom is a new value (its
\* dependencies, line 198), then FitBounds when markers is a new array (its
\* dependencies, line 209) that is not empty
RunEffects(view, viewChanged, markersChanged, center, zoom, ms) ==
    LET afterChangeView == IF viewChanged THEN SetView(center, zoom) ELSE view
    IN  IF markersChanged /\ Len(ms) > 0 THEN FitBounds(ms) ELSE afterChangeView

\* the render that follows a commit of the Shell's state, and its effects:
\* viewChanged when the commit set a new center object or another zoom,
\* markersChanged when it set a new markers array
Render(viewChanged, markersChanged) ==
    leaflet' = RunEffects(leaflet, viewChanged, markersChanged, mapCenter', mapZoom', markers')

\* the position of the "You are here" marker (line 297)
UserMarkerPosition(center) == [lat |-> center.lat, lng |-> center.lng]

(***************************************************************************)
(* The Chat Message View: ChatMessage, as a function of the message it is  *)
(* handed.                                                                 *)
(***************************************************************************)
\* the label above the location chips (lines 79-89); Undefined when the block
\* is not rendered
LocationsLabel(message) ==
    IF /\ message.role /= "user"
       /\ IsDefined(message.markers)
       /\ Len(Get(message.markers)) > 0
    THEN Some(IF \E k \in 1..Len(Get(message.markers)) :
                     MarkerType(Get(message.markers)[k]) = Some("origin")
              THEN "Route & Locations:"
              ELSE "Locations found:")
    ELSE Undefined

(***************************************************************************)
(* The Application Shell: App.                                             *)
(***************************************************************************)
DEFAULT_LOCATION == [lat |-> 377749, lng |-> -1224194]

WelcomeText ==
    <<"Hello! I'm GeoGuide. I can help you find places, plan routes, or check the weather. Where would you like to start?">>
ShellApology == <<"Sorry, something went wrong. Please try again.">>

WelcomeMessage ==
    [id |-> "welcome", role |-> "model", text |-> WelcomeText, timestamp |-> 0,
     markers |-> Undefined, sources |-> Undefined]

\* what the user can type into the textarea
Inputs == {<<>>, <<NL, SP>>, <<"a">>}

\* the readings of Date.now() during a session
ClockReadings == {0, 1}

\* what the geolocation capability can report
Positions == {[lat |-> 408000, lng |-> -740000]}

\* a grounding chunk list of a provider response
SomeChunks == <<[kind |-> "maps", title |-> <<>>, uri |-> "u1"]>>

Block(content) == FenceOpen \o content \o FenceClose

\* how the provider call of a send can end
ProviderOutcomes ==
    { [kind |-> "throw", text |-> <<>>, chunks |-> Undefined],
      [kind |-> "ok", text |-> <<"h", "i">>, chunks |-> Undefined],
      [kind |-> "ok", text |-> <<"h", NL>> \o Block(<<"[", "A", ",", "B", "]">>),
       chunks |-> Some(SomeChunks)],
      [kind |-> "ok", text |-> <<"r", NL>> \o Block(<<"[", "O", "]">>) \o <<NL>>,
       chunks |-> Undefined] }

Init ==
    /\ messages = <<WelcomeMessage>>
    /\ inputValue = <<>>
    /\ isLoading = FALSE
    /\ mode = MAPS
    /\ userLocation = DEFAULT_LOCATION
    /\ mapCenter = DEFAULT_LOCATION
    /\ mapZoom = 13
    /\ markers = <<>>
    /\ isDarkMode = FALSE
    /\ mapLayer = "street"
    /\ pending = <<>>
    /\ geo \in {"requested", "idle"}     \* "geolocation" in navigator, or not
    /\ now = 0
    /\ gatewayCalls = 0
    /\ gwIn = Undefined
    /\ gwOut = Undefined
    /\ leaflet = SetView(DEFAULT_LOCATION, 13)

\* onChange of the textarea
SetInputValue(v) ==
    /\ inputValue' = v
    /\ UNCHANGED <<messages, isLoading, mode, userLocation, mapCenter, mapZoom, markers,
                   isDarkMode, mapLayer, pending, geo, now, gatewayCalls, gwIn, gwOut, leaflet>>

\* variants of AppendMessage: the new message put first; the last message
\* overwritten
AppendMessage_prepend(prev, msg) == <<msg>> \o prev
AppendMessage_overwrite(prev, msg) == SubSeq(prev, 1, Len(prev) - 1) \o <<msg>>

\* setMessages(prev => [...prev, msg])
AppendMessage(prev, msg) == Append(prev, msg)

\* variants of the guard: the in-flight flag not consulted; the input not trimmed
SendRejected_ignoresFlag == Trim(inputValue) = <<>>
SendRejected_untrimmed == inputValue = <<>> \/ isLoading

\* the guard of handleSendMessage (line 194): TRUE when the attempt returns at once
SendRejected == Trim(inputValue) = <<>> \/ isLoading

\* handleSendMessage up to its await: the guard, the user message, the call
handleSendMessage ==
    IF SendRejected
    THEN UNCHANGED vars
    ELSE /\ gatewayCalls < MaxSends
         /\ inputValue' = <<>>
         /\ isLoading' = TRUE
         /\ messages' = AppendMessage(messages,
                [id |-> ToString(now), role |-> "user", text |-> inputValue,
                 timestamp |-> now, markers |-> Undefined, sources |-> Undefined])
         /\ pending' = Append(pending,
                [prompt |-> inputValue, mode |-> mode, userLocation |-> Some(userLocation)])
         /\ gatewayCalls' = gatewayCalls + 1
         /\ UNCHANGED <<mode, userLocation, mapCenter, mapZoom, markers, isDarkMode,
                        mapLayer, geo, now, gwIn, gwOut, leaflet>>

\* variants of UpdateMap: the map centred on the last marker; the new markers
\* added to the displayed ones
UpdateMap_lastMarker(response) ==
    IF IsDefined(response.markers) /\ Len(Get(response.markers)) > 0
    THEN /\ markers' = Get(response.markers)
         /\ mapCenter' = [lat |-> Get(response.markers)[Len(Get(response.markers))].lat,
                          lng |-> Get(response.markers)[Len(Get(response.markers))].lng]
         /\ mapZoom' = 14
    ELSE UNCHANGED <<markers, mapCenter, mapZoom>>

UpdateMap_merge(response) ==
    IF IsDefined(response.markers) /\ Len(Get(response.markers)) > 0
    THEN /\ markers' = markers \o Get(response.markers)
         /\ mapCenter' = [lat |-> Get(response.markers)[1].lat,
                          lng |-> Get(response.markers)[1].lng]
         /\ mapZoom' = 14
    ELSE UNCHANGED <<markers, mapCenter, mapZoom>>

\* the update of the map when the response has markers (lines 224-229)
UpdateMap(response) ==
    IF IsDefined(response.markers) /\ Len(Get(response.markers)) > 0
    THEN /\ markers' = Get(response.markers)
         /\ mapCenter' = [lat |-> Get(response.markers)[1].lat,
                          lng |-> Get(response.markers)[1].lng]
         /\ mapZoom' = 14
    ELSE UNCHANGED <<markers, mapCenter, mapZoom>>

\* botMsg (lines 212-219), built at time t from the Gateway's response
BotMessage(response, t) ==
    [id |-> ToString(t + 1), role |-> "model", text |-> response.text, timestamp |-> t,
     markers |-> response.markers, sources |-> response.sources]

\* a variant of ErrorMessage: the Gateway's apology reused
ErrorMessage_gatewayText(t) ==
    [id |-> ToString(t + 1), role |-> "model", text |-> GatewayApology, timestamp |-> t,
     markers |-> Undefined, sources |-> Undefined]

\* errorMsg (lines 232-237), built at time t
ErrorMessage(t) ==
    [id |-> ToString(t + 1), role |-> "model", text |-> ShellApology, timestamp |-> t,
     markers |-> Undefined, sources |-> Undefined]

\* the reply made UpdateMap set markers, center and zoom (line 224)
MapUpdated(result) ==
    /\ result.settled = "resolved"
    /\ IsDefined(result.value.markers)
    /\ Len(Get(result.value.markers)) > 0

\* a variant of Continuation: the flag cleared at the end of the try block only
Continuation_noFinally(i, result) ==
    /\ IF result.settled = "resolved"
       THEN /\ messages' = AppendMessage(messages, BotMessage(result.value, now))
            /\ UpdateMap(result.value)
            /\ isLoading' = FALSE
       ELSE /\ messages' = AppendMessage(messages, ErrorMessage(now))
            /\ UNCHANGED <<markers, mapCenter, mapZoom, isLoading>>
    /\ pending' = SubSeq(pending, 1, i - 1) \o SubSeq(pending, i + 1, Len(pending))
    /\ UNCHANGED <<inputValue, mode, userLocation, isDarkMode, mapLayer, geo, now,
                   gatewayCalls, gwIn, gwOut>>
    /\ Render(MapUpdated(result), MapUpdated(result))

\* a variant of Continuation: a rejection swallowed, no message appended
Continuation_silentCatch(i, result) ==
    /\ IF result.settled = "resolved"
       THEN /\ messages' = AppendMessage(messages, BotMessage(result.value, now))
            /\ UpdateMap(result.value)
       ELSE UNCHANGED <<messages, markers, mapCenter, mapZoom>>
    /\ isLoading' = FALSE
    /\ pending' = SubSeq(pending, 1, i - 1) \o SubSeq(pending, i + 1, Len(pending))
    /\ UNCHANGED <<inputValue, mode, userLocation, isDarkMode, mapLayer, geo, now,
                   gatewayCalls, gwIn, gwOut>>
    /\ Render(MapUpdated(result), MapUpdated(result))

\* handleSendMessage after its await, for the call pending[i] settled with result:
\* the try block, or the catch block, and the finally block
Continuation(i, result) ==
    /\ IF result.settled = "resolved"
       THEN /\ messages' = AppendMessage(messages, BotMessage(result.value, now))
            /\ UpdateMap(result.value)
       ELSE /\ messages' = AppendMessage(messages, ErrorMessage(now))
            /\ UNCHANGED <<markers, mapCenter, mapZoom>>
    /\ isLoading' = FALSE
    /\ pending' = SubSeq(pending, 1, i - 1) \o SubSeq(pending, i + 1, Len(pending))
    /\ UNCHANGED <<inputValue, mode, userLocation, isDarkMode, mapLayer, geo, now,
                   gatewayCalls, gwIn, gwOut>>
    /\ Render(MapUpdated(result), MapUpdated(result))

\* a variant of GatewaySettles: the mode and the location read when the call
\* ends, not when it was made
GatewaySettles_currentState ==
    \E i \in 1..Len(pending), outcome \in ProviderOutcomes :
        Continuation(i, sendMessageToGemini(pending[i].prompt, mode,
                                            Some(userLocation), outcome, now))

\* the provider call of a pending send ends; the Gateway settles and the Shell
\* continues
GatewaySettles ==
    \E i \in 1..Len(pending), outcome \in ProviderOutcomes :
        Continuation(i, sendMessageToGemini(pending[i].prompt, pending[i].mode,
                                            pending[i].userLocation, outcome, now))

\* a variant of handleMarkerClick: the zoom left as it is
handleMarkerClick_keepZoom(marker) ==
    /\ mapCenter' = [lat |-> marker.lat, lng |-> marker.lng]
    /\ UNCHANGED <<messages, inputValue, isLoading, mode, userLocation, mapZoom, markers,
                   isDarkMode, mapLayer, pending, geo, now, gatewayCalls, gwIn, gwOut>>
    /\ Render(TRUE, FALSE)

\* handleMarkerClick (lines 244-247), and the render that follows
handleMarkerClick(marker) ==
    /\ mapCenter' = [lat |-> marker.lat, lng |-> marker.lng]
    /\ mapZoom' = 16
    /\ UNCHANGED <<messages, inputValue, isLoading, mode, userLocation, markers, isDarkMode,
                   mapLayer, pending, geo, now, gatewayCalls, gwIn, gwOut>>
    /\ Render(TRUE, FALSE)

\* a click on a rendered marker
MarkerClick == \E k \in 1..Len(markers) : handleMarkerClick(markers[k])

\* a variant of setMode: the displayed markers cleared with the switch
setMode_clearMarkers(m) ==
    /\ mode' = m
    /\ markers' = <<>>
    /\ UNCHANGED <<messages, inputValue, isLoading, userLocation, mapCenter, mapZoom,
                   isDarkMode, mapLayer, pending, geo, now, gatewayCalls, gwIn, gwOut, leaflet>>

\* the three mode buttons (lines 369, 379, 389)
setMode(m) ==
    /\ mode' = m
    /\ UNCHANGED <<messages, inputValue, isLoading, userLocation, mapCenter, mapZoom, markers,
                   isDarkMode, mapLayer, pending, geo, now, gatewayCalls, gwIn, gwOut, leaflet>>

ToggleMapLayer ==
    /\ mapLayer' = IF mapLayer = "street" THEN "satellite" ELSE "street"
    /\ UNCHANGED <<messages, inputValue, isLoading, mode, userLocation, mapCenter, mapZoom,
                   markers, isDarkMode, pending, geo, now, gatewayCalls, gwIn, gwOut, leaflet>>

ToggleDarkMode ==
    /\ isDarkMode' = ~isDarkMode
    /\ UNCHANGED <<messages, inputValue, isLoading, mode, userLocation, mapCenter, mapZoom,
                   markers, mapLayer, pending, geo, now, gatewayCalls, gwIn, gwOut, leaflet>>

\* a variant of GeolocationSuccess: the map not recentred
GeolocationSuccess_locationOnly(loc) ==
    /\ geo = "requested"
    /\ geo' = "idle"
    /\ userLocation' = loc
    /\ UNCHANGED <<messages, inputValue, isLoading, mode, mapCenter, mapZoom, markers,
                   isDarkMode, mapLayer, pending, now, gatewayCalls, gwIn, gwOut, leaflet>>

\* the success callback of getCurrentPosition
GeolocationSuccess(loc) ==
    /\ geo = "requested"
    /\ geo' = "idle"
    /\ userLocation' = loc
    /\ mapCenter' = loc
    /\ UNCHANGED <<messages, inputValue, isLoading, mode, mapZoom, markers, isDarkMode,
                   mapLayer, pending, now, gatewayCalls, gwIn, gwOut>>
    /\ Render(TRUE, FALSE)

\* the error callback of getCurrentPosition
GeolocationError ==
    /\ geo = "requested"
    /\ geo' = "idle"
    /\ UNCHANGED <<messages, inputValue, isLoading, mode, userLocation, mapCenter, mapZoom,
                   markers, isDarkMode, mapLayer, pending, now, gatewayCalls, gwIn, gwOut, leaflet>>

\* the clock advances by a millisecond
Tick ==
    /\ now + 1 \in ClockReadings
    /\ now' = now + 1
    /\ UNCHANGED <<messages, inputValue, isLoading, mode, userLocation, mapCenter, mapZoom,
                   markers, isDarkMode, mapLayer, pending, geo, gatewayCalls, gwIn, gwOut, leaflet>>

\* what the user, the platform and the clock do
ShellEvents ==
    \/ \E v \in Inputs : SetInputValue(v)
    \/ handleSendMessage
    \/ MarkerClick
    \/ \E m \in ChatMode : setMode(m)
    \/ ToggleMapLayer
    \/ ToggleDarkMode
    \/ \E loc \in Positions : GeolocationSuccess(loc)
    \/ GeolocationError
    \/ Tick

Next ==
    \/ ShellEvents
    \/ GatewaySettles

Spec == Init /\ [][Next]_vars

(***************************************************************************)
(* The Shell against a simulated Gateway: the promise the Shell awaits may *)
(* settle in any way, a rejection included (the Shell's catch block).      *)
(***************************************************************************)
StubMarker ==
    [id |-> <<"marker", 0, 0>>, name |-> "Golden Gate Park", lat |-> 377694,
     lng |-> -1224862, description |-> "park"]

\* a rejection, a reply with a marker, and the Gateway's own fallback reply
StubResults ==
    { Rejected,
      Resolved([text |-> <<"o", "k">>, markers |-> Some(<<StubMarker>>), sources |-> Some(<<>>)]),
      GatewayCatch }

StubSettles ==
    \E i \in 1..Len(pending), result \in StubResults : Continuation(i, result)

NextStub ==
    \/ ShellEvents
    \/ StubSettles

SpecStub == Init /\ [][NextStub]_vars

(***************************************************************************)
(* The Gateway on its own: one invocation of sendMessageToGemini, over the *)
(* raw texts, citation lists and failures the provider call can end with.  *)
(***************************************************************************)
Prefixes == {<<>>, <<"a">>, <<SP, "a", NL>>}
Suffixes == {<<>>, <<NL>>, <<NL, "b", SP>>}

ValidArrays ==
    { <<"[", "A", "]">>,
      <<"[", "O", ",", "D", "]">>,
      <<"[", NL, "A", ",", SP, "B", NL, "]">>,
      <<"[", "]">> }

\* contents JSON.parse accepts
ValidContents == ValidArrays \cup { <<"A">>, <<"[", "null", "]">>, <<"[", "A", ",", "null", "]">> }

\* contents JSON.parse throws on: a trailing comma, a truncated array, a
\* missing comma, plain text, whitespace only
MalformedContents ==
    { <<"[", "A", ",", "]">>,
      <<"[", "A">>,
      <<"[", "A", "B", "]">>,
      <<"x">>,
      <<SP>> }

Middles ==
    {<<>>}
    \cup {Block(c) : c \in ValidContents \cup MalformedContents \cup {<<>>}}
    \cup { FenceOpen \o <<"[", "A", "]">>,                                \* never closed
           <<BT, NL>> \o <<"[", "A", "]">> \o FenceClose,               \* not labelled json
           Block(<<"[", "A", ",", "]">>) \o <<NL>> \o Block(<<"[", "B", "]">>),
           Block(<<"[", "A", "]">>) \o <<NL>> \o Block(<<"[", "B", ",", "]">>),
           FenceOpen \o <<"[", "A", NL, BT, J, NL, "]">> \o FenceClose }

RawTexts == {p \o m \o x : p \in Prefixes, m \in Middles, x \in Suffixes}

ChunkLists ==
    { Undefined,
      Some(<<>>),
      Some(<<[kind |-> "web", title |-> <<>>, uri |-> "u1"]>>),
      Some(<<[kind |-> "maps", title |-> <<"t">>, uri |-> "u2"],
             [kind |-> "other", title |-> <<>>, uri |-> "u3"],
             [kind |-> "web", title |-> <<"w">>, uri |-> "u4"],
             [kind |-> "maps", title |-> <<>>, uri |-> "u5"]>>) }

GatewayOutcomes ==
    {[kind |-> "throw", text |-> <<>>, chunks |-> Undefined]}
    \cup [kind : {"ok"}, text : RawTexts, chunks : ChunkLists]

GatewayInputs ==
    [prompt : {<<"a">>}, mode : ChatMode,
     userLocation : {Undefined, Some(DEFAULT_LOCATION)}, outcome : GatewayOutcomes]

InitGateway ==
    /\ messages = <<WelcomeMessage>>
    /\ inputValue = <<>>
    /\ isLoading = FALSE
    /\ mode = MAPS
    /\ userLocation = DEFAULT_LOCATION
    /\ mapCenter = DEFAULT_LOCATION
    /\ mapZoom = 13
    /\ markers = <<>>
    /\ isDarkMode = FALSE
    /\ mapLayer = "street"
    /\ pending = <<>>
    /\ geo = "idle"
    /\ now \in ClockReadings
    /\ gatewayCalls = 0
    /\ gwIn \in {Some(x) : x \in GatewayInputs}
    /\ gwOut = Undefined
    /\ leaflet = SetView(DEFAULT_LOCATION, 13)

\* the invocation: the request handed to the provider, and what the returned
\* promise settles with
GatewayInvocation ==
    /\ IsDefined(gwIn)
    /\ gwOut = Undefined
    /\ LET request == Request(Get(gwIn).prompt, Get(gwIn).mode, Get(gwIn).userLocation)
           promise == sendMessageToGemini(Get(gwIn).prompt, Get(gwIn).mode,
                                          Get(gwIn).userLocation, Get(gwIn).outcome, now)
       IN  gwOut' = Some([request |-> request,
                          settled |-> promise.settled,
                          value |-> promise.value])
    /\ UNCHANGED <<shellVars, gwIn, leaflet>>

NextGateway == GatewayInvocation

SpecGateway == InitGateway /\ [][NextGateway]_vars

(***************************************************************************)
(* The Map View under the renders of its parent: the marker lists a parent *)
(* can hand it (roles included), and the Shell's handlers that change its  *)
(* props, each followed by the effects of the render it causes.            *)
(***************************************************************************)
MaxMarkers == 3

\* a MapMarker with the optional fields of the element it was made from
MapMarker(sym, idx) ==
    LET o == JsonObject(sym)
    IN  [id |-> <<"marker", 0, idx>>, name |-> o.name, lat |-> o.lat, lng |-> o.lng,
         description |-> o.description, type |-> o.type, distance |-> o.distance]

\* an origin, a destination, a second origin elsewhere, and a marker as the
\* Gateway builds it
MapMarkers ==
    { MapMarker("O", 0),
      MapMarker("D", 1),
      [MapMarker("O", 2) EXCEPT !.name = "Pier 39", !.lat = 378087, !.lng = -1224098],
      Marker("A", 3, 0) }

\* the lists of at most MaxMarkers different markers
MarkerLists ==
    { ms \in UNION {[1..n -> MapMarkers] : n \in 0..MaxMarkers} :
          \A i, j \in 1..Len(ms) : ms[i] = ms[j] => i = j }

InitMapView ==
    /\ Init

\* a reply with the markers ms reaches the Shell: setMarkers, setMapCenter and
\* setMapZoom (lines 224-229), then the render
NewMarkers(ms) ==
    /\ UpdateMap([text |-> <<>>, markers |-> Some(ms), sources |-> Some(<<>>)])
    /\ UNCHANGED <<messages, inputValue, isLoading, mode, userLocation, isDarkMode,
                   mapLayer, pending, geo, now, gatewayCalls, gwIn, gwOut>>
    /\ Render(TRUE, TRUE)

NextMapView ==
    \/ \E ms \in MarkerLists \ {<<>>} : NewMarkers(ms)
    \/ MarkerClick
    \/ \E loc \in Positions : GeolocationSuccess(loc)
    \/ ToggleMapLayer
    \/ ToggleDarkMode

SpecMapView == InitMapView /\ [][NextMapView]_vars

(***************************************************************************)
(* The Chat Message View under the Shell: the log it renders, when the     *)
(* replies carry markers with roles.                                       *)
(***************************************************************************)
\* the marker lists of the replies: none, one without a type, an origin and a
\* destination, an origin alone, a destination alone or with another marker
ReplyMarkerLists ==
    { <<>>,
      <<Marker("A", 3, 0)>>,
      <<MapMarker("O", 0), MapMarker("D", 1)>>,
      <<MapMarker("O", 0)>>,
      <<MapMarker("D", 1)>>,
      <<Marker("A", 3, 0), MapMarker("D", 1)>> }

TypedReplies ==
    { Resolved([text |-> <<"o", "k">>, markers |-> Some(ms), sources |-> Some(<<>>)]) :
          ms \in ReplyMarkerLists }
    \cup {GatewayCatch}

TypedSettles ==
    \E i \in 1..Len(pending), result \in TypedReplies : Continuation(i, result)

NextChat ==
    \/ \E v \in Inputs : SetInputValue(v)
    \/ handleSendMessage
    \/ TypedSettles

SpecChat == Init /\ [][NextChat]_vars

(***************************************************************************)
(* Properties.                                                             *)
(***************************************************************************)
IsPrefix(a, b) == Len(a) <= Len(b) /\ SubSeq(b, 1, Len(a)) = a

\* a step in which a send is accepted: the Shell calls the Gateway
SendAccepted == gatewayCalls' = gatewayCalls + 1

\* a step in which an outstanding Gateway call settles
CallSettled == Len(pending') < Len(pending)

\* the number of messages with role r in log
RECURSIVE CountRole(_, _)
CountRole(log, r) ==
    IF log = <<>> THEN 0
    ELSE (IF Head(log).role = r THEN 1 ELSE 0) + CountRole(Tail(log), r)

\* the Gateway calls made and not yet answered in the log
Outstanding == gatewayCalls - (CountRole(messages, "model") - 1)

\* C1: at most one Gateway call is outstanding at any time, and a send attempt
\* made while a send is in flight calls the Gateway no further and appends
\* nothing.
C1_SingleFlight ==
    /\ [](Len(pending) <= 1 /\ Outstanding <= 1)
    /\ [][(handleSendMessage /\ isLoading)
            => UNCHANGED <<messages, gatewayCalls, pending>>]_vars

\* a send is in flight and the textarea holds text that is not blank: an
\* attempt now passes the input test and is stopped by the flag alone
C1_Witness ==
    /\ isLoading
    /\ Len(pending) = 1
    /\ Trim(inputValue) /= <<>>
    /\ gatewayCalls = 1

\* C2: the in-flight flag is true exactly while a Gateway call is outstanding:
\* it turns true when, and only when, a send is accepted, and whenever the call
\* settles (resolved with a reply, resolved with the Gateway's fallback, or
\* rejected) the flag is false afterwards.
C2_FlagMachine ==
    /\ [](isLoading \in BOOLEAN /\ (isLoading <=> pending /= <<>>))
    /\ [][SendAccepted => (~isLoading /\ isLoading')]_vars
    /\ [][(~isLoading /\ isLoading') => SendAccepted]_vars
    /\ [][CallSettled => ~isLoading']_vars
    /\ [][(isLoading /\ ~isLoading') => CallSettled]_vars

\* both failure paths have been taken and the flag is false again
C2_Witness ==
    /\ ~isLoading
    /\ \E k \in 1..Len(messages) : messages[k].text = ShellApology
    /\ \E k \in 1..Len(messages) : messages[k].text = GatewayApology

\* the log is in order of creation
Chronological ==
    \A a, b \in 1..Len(messages) : a < b => messages[a].timestamp <= messages[b].timestamp

\* every user message is the last message, its call outstanding, or is followed
\* by one model message and then by no second one
OneReplyEach ==
    \A k \in 1..Len(messages) :
        messages[k].role = "user" =>
            \/ k = Len(messages) /\ pending /= <<>>
            \/ /\ k < Len(messages)
               /\ messages[k + 1].role = "model"
               /\ (k + 2 <= Len(messages) => messages[k + 2].role = "user")

\* C3: an accepted send appends its user message while its call is still
\* outstanding; when the call settles exactly one model message is appended,
\* after that user message; the log is in order of creation.
C3_Ordering ==
    /\ [](Chronological /\ OneReplyEach)
    /\ [][SendAccepted =>
            /\ Len(messages') = Len(messages) + 1
            /\ IsPrefix(messages, messages')
            /\ messages'[Len(messages')].role = "user"
            /\ messages'[Len(messages')].text = inputValue
            /\ pending' /= <<>>]_vars
    /\ [][CallSettled =>
            /\ Len(messages') = Len(messages) + 1
            /\ IsPrefix(messages, messages')
            /\ messages'[Len(messages')].role = "model"
            /\ messages[Len(messages)].role = "user"]_vars

\* two sends were answered, the first answer in a later clock tick than its send
C3_Witness ==
    /\ Len(messages) = 5
    /\ messages[2].role = "user" /\ messages[3].role = "model"
    /\ messages[4].role = "user" /\ messages[5].role = "model"
    /\ messages[2].timestamp < messages[3].timestamp

\* C4: the conversation log is append-only: every step of every operation
\* leaves the earlier log as a prefix of the later one.
C4_AppendOnly == [][IsPrefix(messages, messages')]_vars

\* a log that grew through a reply, a failure and the other operations
C4_Witness ==
    /\ Len(messages) = 5
    /\ messages[5].text = ShellApology
    /\ mode = CHAT
    /\ mapZoom = 16
    /\ isDarkMode
    /\ mapLayer = "satellite"
    /\ userLocation /= DEFAULT_LOCATION

\* no message of the log has a blank text
NoBlankUserMessage ==
    \A k \in 1..Len(messages) : Trim(messages[k].text) /= <<>>

\* C5: a send attempt with an empty or whitespace-only input appends nothing,
\* calls the Gateway not at all and leaves the flag and the input as they were,
\* in every mode and whether or not a send is in flight; no blank message ever
\* enters the log.
C5_BlankInput ==
    /\ [][(handleSendMessage /\ Trim(inputValue) = <<>>)
            => UNCHANGED <<messages, gatewayCalls, pending, isLoading, inputValue>>]_vars
    /\ [][Trim(inputValue) = <<>> => ~SendAccepted]_vars
    /\ [](NoBlankUserMessage /\ gatewayCalls = CountRole(messages, "user"))

\* a whitespace-only input, while a send is in flight, outside MAPS mode
C5_Witness ==
    /\ inputValue = <<NL, SP>>
    /\ isLoading
    /\ mode = SEARCH

\* whether an optional marker list is present and not empty
HasMarkers(opt) == IsDefined(opt) /\ Get(opt) /= <<>>

\* C6: from the initial state (the log is the welcome message alone, no marker,
\* zoom 13) the reply to the first send, when it carries markers, leaves the log
\* two messages longer (user, then model), the displayed markers equal to the
\* returned list, the map centred on the first returned marker and the zoom 14.
C6_FirstReply ==
    /\ (messages = <<WelcomeMessage>> /\ WelcomeMessage.role = "model"
        /\ markers = <<>> /\ mapZoom = 13)
    /\ [][(Len(messages) = 2 /\ Len(messages') = 3 /\ HasMarkers(messages'[3].markers))
            => /\ messages'[1] = WelcomeMessage
               /\ messages'[2] = messages[2]
               /\ messages'[2].role = "user"
               /\ messages'[3].role = "model"
               /\ markers' = Get(messages'[3].markers)
               /\ mapCenter' = [lat |-> Get(messages'[3].markers)[1].lat,
                                lng |-> Get(messages'[3].markers)[1].lng]
               /\ mapZoom' = 14]_vars

\* the first reply brought two markers and the map shows them, centred on the first
C6_Witness ==
    /\ Len(messages) = 3
    /\ HasMarkers(messages[3].markers)
    /\ Len(markers) = 2
    /\ markers = Get(messages[3].markers)
    /\ mapCenter = [lat |-> 377694, lng |-> -1224862]
    /\ mapZoom = 14

\* the marker list of the latest message of log that has one, or none
RECURSIVE LatestMarkers(_)
LatestMarkers(log) ==
    IF log = <<>> THEN <<>>
    ELSE IF log[Len(log)].role = "model" /\ HasMarkers(log[Len(log)].markers)
    THEN Get(log[Len(log)].markers)
    ELSE LatestMarkers(SubSeq(log, 1, Len(log) - 1))

\* C7: the displayed marker set is always the marker list of the latest model
\* message that has a non-empty one (empty when there is none); a reply without
\* markers and a failure leave it as it was.
C7_LatestMarkers ==
    /\ [](markers = LatestMarkers(messages))
    /\ [][(CallSettled /\ ~HasMarkers(messages'[Len(messages')].markers))
            => markers' = markers]_vars

\* two replies brought marker lists with no marker in common: the map shows
\* the later list alone
C7_Witness ==
    \E a, b \in 1..Len(messages) :
        /\ a < b
        /\ HasMarkers(messages[a].markers)
        /\ HasMarkers(messages[b].markers)
        /\ \A x \in 1..Len(Get(messages[a].markers)), y \in 1..Len(Get(messages[b].markers)) :
               Get(messages[a].markers)[x] /= Get(messages[b].markers)[y]
        /\ markers = Get(messages[b].markers)

\* C8: when the Gateway call of a send rejects, the log (which ends with the
\* send's user message) gains exactly one model message, with the Shell's fixed
\* apology; markers, centre and zoom are unchanged and the flag is false.
C8_Rejection ==
    [][\A i \in 1..Len(pending) :
          Continuation(i, Rejected)
            => /\ messages[Len(messages)].role = "user"
               /\ messages[Len(messages)].text = pending[i].prompt
               /\ Len(messages') = Len(messages) + 1
               /\ IsPrefix(messages, messages')
               /\ messages'[Len(messages')].role = "model"
               /\ messages'[Len(messages')].text
                      = <<"Sorry, something went wrong. Please try again.">>
               /\ UNCHANGED <<markers, mapCenter, mapZoom>>
               /\ ~isLoading']_vars

\* a rejection after an earlier reply had put a marker on the map
C8_Witness ==
    /\ Len(messages) = 5
    /\ messages[4].role = "user"
    /\ messages[5].text = ShellApology
    /\ markers /= <<>>
    /\ mapZoom = 14
    /\ ~isLoading

\* the arguments and the result of the Gateway invocation
In == Get(gwIn)
Out == Get(gwOut)

\* the text the Gateway works on (line 83)
RawText == IF In.outcome.text = <<>> THEN NoTextFallback ELSE In.outcome.text

\* the provider call throws, or the handling of its response does: in MAPS mode
\* the first fenced block holds an array with a null element
GatewayFails ==
    \/ In.outcome.kind = "throw"
    \/ /\ In.mode = MAPS
       /\ IsDefined(FenceMatch(RawText))
       /\ \E k \in 1..Len(Get(FenceMatch(RawText)).group) :
              Get(FenceMatch(RawText)).group[k] = "null"

MalformedBlock ==
    /\ In.mode = MAPS
    /\ In.outcome.kind = "ok"
    /\ IsDefined(FenceMatch(RawText))
    /\ ~JSONParse(Get(FenceMatch(RawText)).group).ok

\* the raw text without its first fenced block
WithoutBlock ==
    SubSeq(RawText, 1, Get(FenceMatch(RawText)).from - 1)
        \o SubSeq(RawText, Get(FenceMatch(RawText)).to + 1, Len(RawText))

\* C10 as stated: with a malformed block the Gateway resolves, returns no marker
\* and returns the raw text, trimmed, as the display text.
C10_AsStated ==
    (IsDefined(gwOut) /\ MalformedBlock) =>
        /\ Out.settled = "resolved"
        /\ Out.value.markers = Some(<<>>)
        /\ Out.value.text = Trim(RawText)

\* C10, amended: when the first fenced block is malformed the Gateway resolves,
\* returns no marker and returns as the display text the raw text with that
\* block removed, trimmed.
C10_MalformedBlock ==
    (IsDefined(gwOut) /\ MalformedBlock) =>
        /\ Out.settled = "resolved"
        /\ Out.value.markers = Some(<<>>)
        /\ Out.value.text = Trim(WithoutBlock)

\* a block with a trailing comma, between a text before and a text after it
C10_Witness ==
    /\ IsDefined(gwOut)
    /\ MalformedBlock
    /\ Get(FenceMatch(RawText)).group = <<"[", "A", ",", "]">>
    /\ Get(FenceMatch(RawText)).from > 1
    /\ Get(FenceMatch(RawText)).to < Len(RawText) - 1

\* the case of C11: MAPS mode, and the first fenced block of the raw text holds
\* an array of objects
ValidArrayBlock ==
    /\ In.mode = MAPS
    /\ In.outcome.kind = "ok"
    /\ IsDefined(FenceMatch(RawText))
    /\ JSONParse(Get(FenceMatch(RawText)).group).ok
    /\ JSONParse(Get(FenceMatch(RawText)).group).isArray
    /\ \A k \in 1..Len(Get(FenceMatch(RawText)).group) :
           Get(FenceMatch(RawText)).group[k] /= "null"

BlockElements == JSONParse(Get(FenceMatch(RawText)).group).elems

\* C11 as stated: in MAPS mode, for a fenced block holding a valid array, the
\* Gateway returns one marker per element in array order, each with the role of
\* the element's type field (default when absent) and with the element's
\* distance when present; the display text holds no fenced block and no blank
\* line around it.
C11_AsStated ==
    (IsDefined(gwOut) /\ ValidArrayBlock) =>
        /\ Out.settled = "resolved"
        /\ IsDefined(Out.value.markers)
        /\ Len(Get(Out.value.markers)) = Len(BlockElements)
        /\ \A k \in 1..Len(BlockElements) :
              LET mk == Get(Out.value.markers)[k]
                  o == JsonObject(BlockElements[k])
              IN  /\ mk.name = o.name
                  /\ mk.lat = o.lat
                  /\ mk.lng = o.lng
                  /\ Role(mk) = (IF IsDefined(o.type) THEN Get(o.type) ELSE "default")
                  /\ MarkerDistance(mk) = o.distance
        /\ ~IsDefined(FenceMatch(Out.value.text))
        /\ Trim(Out.value.text) = Out.value.text

\* the request the invocation handed to the provider
Req == Out.request

\* C12: the request is the row of the configuration table for the mode.  MAPS:
\* flash model, map instruction, the maps tool only, and a retrieval bias at the
\* user's coordinate exactly when a location is supplied.  SEARCH: flash model,
\* search instruction, the web-search tool only, no bias.  CHAT: pro model,
\* general instruction, no tool and no tool configuration.
C12_Configuration ==
    IsDefined(gwOut) =>
        /\ Req.contents = In.prompt
        /\ In.mode = MAPS =>
              /\ Req.model = "gemini-2.5-flash"
              /\ Req.config.systemInstruction = SYSTEM_INSTRUCTION_MAPS
              /\ Req.config.tools = Some(<<"googleMaps">>)
              /\ IsDefined(Req.config.toolConfig) <=> IsDefined(In.userLocation)
              /\ IsDefined(In.userLocation) =>
                    Get(Req.config.toolConfig).retrievalConfig.latLng =
                        [latitude |-> Get(In.userLocation).lat,
                         longitude |-> Get(In.userLocation).lng]
        /\ In.mode = SEARCH =>
              /\ Req.model = "gemini-2.5-flash"
              /\ Req.config.systemInstruction = SYSTEM_INSTRUCTION_SEARCH
              /\ Req.config.tools = Some(<<"googleSearch">>)
              /\ Req.config.toolConfig = Undefined
        /\ In.mode = CHAT =>
              /\ Req.model = "gemini-3-pro-preview"
              /\ Req.config.systemInstruction = SYSTEM_INSTRUCTION_CHAT
              /\ Req.config.tools = Undefined
              /\ Req.config.toolConfig = Undefined

\* a MAPS request made with a location: the bias is at that location
C12_Witness ==
    /\ IsDefined(gwOut)
    /\ In.mode = MAPS
    /\ IsDefined(In.userLocation)
    /\ IsDefined(Req.config.toolConfig)
    /\ Get(Req.config.toolConfig).retrievalConfig.latLng.latitude = DEFAULT_LOCATION.lat

\* the provider's citation chunks (none when there is no grounding metadata)
Chunks == IF IsDefined(In.outcome.chunks) THEN Get(In.outcome.chunks) ELSE <<>>
Citations == SelectSeq(Chunks, IsCitation)

\* one source per web or maps chunk, in the provider's order, titled by the
\* chunk or by the default of its kind
CitedInOrder(sources) ==
    /\ Len(sources) = Len(Citations)
    /\ \A k \in 1..Len(Citations) :
          /\ sources[k].uri = Citations[k].uri
          /\ sources[k].title =
                (IF Citations[k].title /= <<>> THEN Citations[k].title
                 ELSE IF Citations[k].kind = "web" THEN <<"Web Source">>
                 ELSE <<"Map Location">>)

C14_TileSource ==
    LET url == tileLayerUrl(mapLayer, isDarkMode)
    IN  /\ mapLayer \in {"street", "satellite"}
        /\ isDarkMode \in BOOLEAN
        /\ mapLayer = "satellite" =>
              url = "https://server.arcgisonline.com/ArcGIS/rest/services/World_Imagery/MapServer/tile/{z}/{y}/{x}"
        /\ url = "https://{s}.basemaps.cartocdn.com/dark_all/{z}/{x}/{y}{r}.png"
              <=> (mapLayer = "street" /\ isDarkMode)
        /\ (mapLayer = "street" /\ ~isDarkMode) =>
              url = "https://{s}.tile.openstreetmap.org/{z}/{x}/{y}.png"

\* both toggles used: the satellite layer in dark mode
C14_Witness ==
    /\ mapLayer = "satellite"
    /\ isDarkMode
    /\ tileLayerUrl(mapLayer, isDarkMode) = SatelliteTiles

\* the Map View draws the route line
RouteDrawn(ms) == IsDefined(routePositions(ms))

HasRole(ms, role) == \E k \in 1..Len(ms) : Role(ms[k]) = role

\* the list ms without its k-th marker
Without(ms, k) == SubSeq(ms, 1, k - 1) \o SubSeq(ms, k + 1, Len(ms))

SameMarkers(a, b) == {a[k] : k \in 1..Len(a)} = {b[k] : k \in 1..Len(b)}

\* C15: the route line is drawn exactly when the marker list has an origin and
\* a destination marker; every list of the same markers in another order gives
\* the same answer; and without its only origin, or its only destination, the
\* list gives no line.
C15_RouteLine ==
    /\ RouteDrawn(markers) <=> (HasRole(markers, "origin") /\ HasRole(markers, "destination"))
    /\ \A other \in MarkerLists :
          SameMarkers(other, markers) => (RouteDrawn(other) <=> RouteDrawn(markers))
    /\ \A k \in 1..Len(markers), role \in {"origin", "destination"} :
          (/\ Role(markers[k]) = role
           /\ \A h \in 1..Len(markers) : Role(markers[h]) = role => h = k)
             => ~RouteDrawn(Without(markers, k))

\* the destination listed before the origin, a third marker with them, and the
\* line drawn
C15_Witness ==
    /\ Len(markers) = 3
    /\ Role(markers[1]) = "destination"
    /\ Role(markers[3]) = "origin"
    /\ RouteDrawn(markers)
    /\ leaflet.op = "fitBounds"

\* C16: a marker click sets the center to the marker's coordinate and the zoom
\* to 16; the log, the displayed markers, the mode, the user location, the
\* in-flight flag and the outstanding requests stay as they are.
C16_MarkerClick ==
    [][\A k \in 1..Len(markers) :
           handleMarkerClick(markers[k]) =>
               /\ mapCenter' = [lat |-> markers[k].lat, lng |-> markers[k].lng]
               /\ mapZoom' = 16
               /\ UNCHANGED <<messages, markers, mode, userLocation, isLoading, pending>>]_vars

\* a marker clicked while a later send is in flight
C16_Witness ==
    /\ markers /= <<>>
    /\ mapZoom = 16
    /\ mapCenter = [lat |-> markers[1].lat, lng |-> markers[1].lng]
    /\ isLoading
    /\ Len(pending) = 1
    /\ leaflet.op = "setView"

\* C17: a switch of mode changes the mode only; the log, the displayed
\* markers, the center, the zoom, the in-flight flag and the outstanding
\* requests stay as they are, a send being in flight or not.
C17_ModeSwitch ==
    [][\A m \in ChatMode :
           setMode(m) =>
               /\ mode' = m
               /\ UNCHANGED <<messages, markers, mapCenter, mapZoom, isLoading, pending,
                              inputValue, userLocation, isDarkMode, mapLayer>>]_vars

\* the mode switched while a send made in MAPS mode is in flight and markers
\* are displayed
C17_Witness ==
    /\ mode = CHAT
    /\ isLoading
    /\ Len(pending) = 1
    /\ pending[1].mode = MAPS
    /\ markers /= <<>>

\* C18 as stated: in every state the identifiers of the messages of the log
\* are pairwise distinct.
C18_AsStated ==
    \A i, j \in 1..Len(messages) : messages[i].id = messages[j].id => i = j

\* b is the smallest box that holds every marker of ms
IsBoundingBox(b, ms) ==
    /\ \A k \in 1..Len(ms) :
          /\ b.south <= ms[k].lat /\ ms[k].lat <= b.north
          /\ b.west <= ms[k].lng /\ ms[k].lng <= b.east
    /\ \E k \in 1..Len(ms) : ms[k].lat = b.south
    /\ \E k \in 1..Len(ms) : ms[k].lat = b.north
    /\ \E k \in 1..Len(ms) : ms[k].lng = b.west
    /\ \E k \in 1..Len(ms) : ms[k].lng = b.east

\* the view of the Leaflet map is the fit to all displayed markers, padded by
\* 50 pixels
Fitted ==
    /\ leaflet.op = "fitBounds"
    /\ leaflet.padding = Some(<<50, 50>>)
    /\ IsDefined(leaflet.bounds)
    /\ IsBoundingBox(Get(leaflet.bounds), markers)

\* C19 as stated: with a marker list that is not empty, every change of the
\* center or of the zoom, a marker click included, ends with the view fitted to
\* all markers with a padding of 50 pixels.
C19_AsStated ==
    [][(markers' /= <<>> /\ (mapCenter' /= mapCenter \/ mapZoom' /= mapZoom)) => Fitted']_vars

\* C19, amended: a commit that hands the Map View a new marker list that is
\* not empty ends with the view fitted to all markers with a padding of 50
\* pixels, applied after the explicit view; a change of center or zoom that
\* keeps the marker list (a marker click, the geolocation answer) ends with
\* the explicit view, and no fit follows.
C19_AutoFit ==
    [][/\ (\E ms \in MarkerLists \ {<<>>} : NewMarkers(ms)) => Fitted'
       /\ (MarkerClick \/ \E loc \in Positions : GeolocationSuccess(loc)) =>
              leaflet' = SetView(mapCenter', mapZoom')]_vars

\* a marker of a list of three clicked: the view is the explicit one, at the
\* marker, although markers are displayed
C19_Witness ==
    /\ Len(markers) = 3
    /\ mapZoom = 16
    /\ mapCenter = [lat |-> markers[2].lat, lng |-> markers[2].lng]
    /\ leaflet = SetView(mapCenter, 16)

\* C20 as stated: in every state the "You are here" marker is at the user's
\* location (the geolocated one, or the fallback before geolocation answers),
\* whatever the marker list and the center of the map.
C20_AsStated ==
    UserMarkerPosition(mapCenter) = userLocation

\* C21: the geolocation request is made at startup only, so once answered it is
\* never outstanding again.  Its success, whenever it arrives, sets the user
\* location and the center to the returned coordinate and leaves the zoom, the
\* markers, the log, the in-flight flag and the outstanding requests as they
\* are; its failure changes nothing of the Shell's state.
C21_Geolocation ==
    [][/\ geo' = "requested" => geo = "requested"
       /\ \A loc \in Positions :
             GeolocationSuccess(loc) =>
                 /\ userLocation' = loc
                 /\ mapCenter' = loc
                 /\ UNCHANGED <<mapZoom, markers, messages, isLoading, pending, mode,
                                inputValue>>
       /\ GeolocationError =>
             UNCHANGED <<messages, inputValue, isLoading, mode, userLocation, mapCenter,
                         mapZoom, markers, isDarkMode, mapLayer, pending, leaflet>>]_vars

\* the position arrived after a reply with markers and while a later send is
\* in flight
C21_Witness ==
    /\ geo = "idle"
    /\ userLocation \in Positions
    /\ mapCenter = userLocation
    /\ markers /= <<>>
    /\ mapZoom = 14
    /\ isLoading
    /\ leaflet = SetView(userLocation, 14)

\* C22 as stated: a model message with markers shows "Route & Locations:"
\* exactly when one of its markers is an origin or a destination, and
\* "Locations found:" otherwise; a user message, and a message without
\* markers, shows no label.
C22_AsStated ==
    \A k \in 1..Len(messages) :
        LET msg == messages[k]
        IN  IF msg.role = "model" /\ HasMarkers(msg.markers)
            THEN LocationsLabel(msg) =
                    Some(IF \/ HasRole(Get(msg.markers), "origin")
                            \/ HasRole(Get(msg.markers), "destination")
                         THEN "Route & Locations:"
                         ELSE "Locations found:")
            ELSE LocationsLabel(msg) = Undefined

\* C23: in every state the log is the welcome message followed by user and
\* model messages in strict alternation, and the in-flight flag is set exactly
\* when the last message of the log is a user message.
C23_Alternation ==
    /\ Len(messages) >= 1
    /\ messages[1] = WelcomeMessage
    /\ \A k \in 2..Len(messages) :
          messages[k].role = (IF k % 2 = 0 THEN "user" ELSE "model")
    /\ isLoading <=> messages[Len(messages)].role = "user"

\* a second send in flight, the first one answered by the Shell's apology
C23_Witness ==
    /\ Len(messages) = 4
    /\ messages[3].text = ShellApology
    /\ messages[4].role = "user"
    /\ isLoading

\* the reply to the oldest outstanding request, for a provider outcome: the
\* Gateway's result for the arguments the request was made with
ReplyTo(outcome) ==
    sendMessageToGemini(pending[1].prompt, pending[1].mode, pending[1].userLocation,
                        outcome, now).value

\* C24: an accepted send makes its request with the input text, the mode and
\* the user location of that moment; a mode switch, a geolocation answer or
\* new input while it is in flight leaves the outstanding request as it is;
\* and when the call ends, the reply is the Gateway's result for the request's
\* own arguments, and its markers, if any, become the displayed markers with
\* the center on the first and zoom 14, whatever the mode then is.
C24_CapturedArguments ==
    /\ [][SendAccepted =>
            pending'[Len(pending')] =
                [prompt |-> inputValue, mode |-> mode,
                 userLocation |-> Some(userLocation)]]_vars
    /\ [][(\/ \E m \in ChatMode : setMode(m)
           \/ \E loc \in Positions : GeolocationSuccess(loc)
           \/ \E v \in Inputs : SetInputValue(v)) => UNCHANGED pending]_vars
    /\ [][CallSettled =>
            \E outcome \in ProviderOutcomes :
                /\ messages'[Len(messages')] = BotMessage(ReplyTo(outcome), now)
                /\ IF HasMarkers(ReplyTo(outcome).markers)
                   THEN /\ markers' = Get(ReplyTo(outcome).markers)
                        /\ mapCenter' = [lat |-> markers'[1].lat, lng |-> markers'[1].lng]
                        /\ mapZoom' = 14
                   ELSE UNCHANGED <<markers, mapCenter, mapZoom>>]_vars

\* a request made in MAPS mode at the fallback location is in flight; since
\* then the mode was switched, the position arrived and new text was typed
C24_Witness ==
    /\ isLoading
    /\ Len(pending) = 1
    /\ pending[1].mode = MAPS
    /\ mode = SEARCH
    /\ pending[1].userLocation = Some(DEFAULT_LOCATION)
    /\ userLocation \in Positions
    /\ pending[1].prompt = <<"a">>
    /\ inputValue = <<NL, SP>>

====
